---- MODULE Spec2Model ----
(***************************************************************************)
(* Model of the geometry interchange codecs of iClient-JavaScript:         *)
(*   - SuperMap.Route (Route JSON encode / decode),                        *)
(*   - SuperMap.Format.WKT (WKT read / write).                             *)
(* Text is modelled at character level: a string is a sequence of          *)
(* one-character strings, so that concatenation, regular-expression        *)
(* replacement and splitting are computed the way the code computes them.  *)
(***************************************************************************)
EXTENDS Integers, Sequences, FiniteSets, TLC

VARIABLES
    jsonObject,   \* the JSON object Route.fromJson is called with
    ctorArgs,     \* the arguments new Route(points, options) is called with
    result,       \* outcome of the last Route.fromJson call
    route,        \* the Route instance the application holds (this of toJson)
    text,         \* outcome of the last Route.toJson call
    prevText,     \* outcome of the toJson call before the last one
    runs,         \* number of consecutive toJson calls on the held Route (capped)
    codec,        \* the WKT instance: its internalProjection and externalProjection
    toWrite,      \* the feature or array of features WKT.write is called with
    wktText,      \* the WKT text: what write returned, or what read is called with
    decoded,      \* outcome of the last WKT.read call
    lastOp        \* name of the last operation

routeVars == <<jsonObject, ctorArgs, result, route, text, prevText, runs>>
wktVars == <<codec, toWrite, wktText, decoded>>
vars == <<routeVars, wktVars, lastOp>>

----------------------------------------------------------------------------
(* Bounds of the model *)

MaxParts == 2      \* longest parts array of a JSON object
MaxPartSize == 2   \* largest entry of a parts array
MaxPoints == 3     \* longest points array of a JSON object
MaxRuns == 2       \* consecutive toJson calls that are counted

----------------------------------------------------------------------------
(* JavaScript values *)

Undefined == [t |-> "undefined"]
Null == [t |-> "null"]
Num(n) == [t |-> "number", v |-> n]
Str(s) == [t |-> "string", v |-> s]
Arr(s) == [t |-> "array", v |-> s]
Obj(r) == [t |-> "object", v |-> r]

\* v == null  (loose equality: true of null and of undefined)
LooseNull(v) == v.t \in {"null", "undefined"}

\* !v for the values of the model
Falsy(v) ==
    \/ LooseNull(v)
    \/ (v.t = "number" /\ v.v = 0)
    \/ (v.t = "string" /\ v.v = <<>>)

\* a || []
OrEmpty(v) == IF Falsy(v) THEN Arr(<<>>) ELSE v

----------------------------------------------------------------------------
(* Strings *)

Digits == <<"0", "1", "2", "3", "4", "5", "6", "7", "8", "9">>

RECURSIVE NumStr(_)
\* Number -> string conversion of an integer
NumStr(n) ==
    IF n < 0 THEN <<"-">> \o NumStr(-n)
    ELSE IF n < 10 THEN <<Digits[n + 1]>>
    ELSE NumStr(n \div 10) \o <<Digits[(n % 10) + 1]>>

Q == "\""
S_undefined == <<"u", "n", "d", "e", "f", "i", "n", "e", "d">>
S_null == <<"n", "u", "l", "l">>

\* "" + v : string concatenation's conversion of a value
JsStr(v) ==
    CASE v.t = "number" -> NumStr(v.v)
      [] v.t = "string" -> v.v
      [] v.t = "undefined" -> S_undefined
      [] v.t = "null" -> S_null

\* s.replace(/,$/g, '')
StripTrailingComma(s) ==
    IF Len(s) > 0 /\ s[Len(s)] = "," THEN SubSeq(s, 1, Len(s) - 1) ELSE s

\* whether sub occurs in s
Contains(s, sub) ==
    \E i \in 1..(Len(s) - Len(sub) + 1) : SubSeq(s, i, i + Len(sub) - 1) = sub

RECURSIVE Concat(_)
Concat(ss) == IF ss = <<>> THEN <<>> ELSE Head(ss) \o Concat(Tail(ss))

RECURSIVE Sum(_)
Sum(ns) == IF ns = <<>> THEN 0 ELSE Head(ns) + Sum(Tail(ns))

----------------------------------------------------------------------------
(* Geometry model used by Route *)

\* PointWithMeasure.fromJson of one entry of points.  The entry is undefined
\* when the index is past the end of the array; what the conversion does with
\* it is one of: raise ("throw"), or hand the missing value on ("keep").
PointWithMeasure_fromJson(p, missing) ==
    IF p = Undefined
    THEN IF missing = "throw" THEN [t |-> "throw"] ELSE Undefined
    ELSE [t |-> "PointWithMeasure", x |-> p.x, y |-> p.y, measure |-> p.measure]

\* a.equals(b): exact coordinate equality; a missing b is equal to nothing
Equals(a, b) == b # Undefined /\ a.x = b.x /\ a.y = b.y

\* PointWithMeasure.prototype.toJson: the point's own JSON text
PointWithMeasure_toJson(p) ==
    <<"{", Q, "x", Q, ":">> \o NumStr(p.x)
        \o <<",", Q, "y", Q, ":">> \o NumStr(p.y)
        \o <<",", Q, "m", "e", "a", "s", "u", "r", "e", Q, ":">> \o NumStr(p.measure)
        \o <<"}">>

\* new SuperMap.Geometry.LinearRing(points) / LineString(points):
\* the components are the points as given
LinearRing(points) == [CLASS_NAME |-> "LinearRing", components |-> points]
LineString(points) == [CLASS_NAME |-> "LineString", components |-> points]

\* SuperMap.Util.extend(this, options): the option values are copied verbatim
Extend(obj, options) ==
    [f \in DOMAIN obj |-> IF f \in DOMAIN options THEN options[f] ELSE obj[f]]

\* Collection constructor (super(points, options)) followed by the field
\* initialisers of Route: components are the lines as given, every other
\* field starts as null
RouteFields ==
    [id |-> Null, center |-> Null, style |-> Null, length |-> Null,
     maxM |-> Null, minM |-> Null, parts |-> Null, type |-> Null,
     components |-> Null]

\* new Route(points, options)
NewRoute(points, options) ==
    LET base == [RouteFields EXCEPT !.components = Arr(points)]
    IN  IF Falsy(options) THEN base ELSE Extend(base, options.v)

----------------------------------------------------------------------------
(* Route.fromJson *)

\* pointIndex += geoParts[i]
AdvanceIndexStuck(pointIndex, n) == pointIndex
AdvanceIndex(pointIndex, n) == pointIndex + n

\* geoPoints[k] with a 0-based k: undefined past the end of the array
At(arr, k) == IF k + 1 \in 1..Len(arr) THEN arr[k + 1] ELSE Undefined

\* pointList[0].equals(pointList[geoParts[i] - 1])
IsClosedOffByOne(pointList, n) == Equals(At(pointList, 0), At(pointList, n))
IsClosed(pointList, n) == Equals(At(pointList, 0), At(pointList, n - 1))

\* the closed / open classification of one part
Classify(pointList, n) ==
    IF IsClosed(pointList, n) THEN LinearRing(pointList) ELSE LineString(pointList)

\* pointList[0] is undefined, so that pointList[0].equals is a property access
\* on undefined
FirstPointMissingIgnored(pointList) == FALSE
FirstPointMissing(pointList) == At(pointList, 0) = Undefined

RECURSIVE WalkParts(_, _, _, _, _, _, _)
\* The loop over parts (i is 0-based as in the code).  oob records whether an
\* index past the end of geoPoints has been read.
WalkParts(geoParts, geoPoints, i, pointIndex, lineList, missing, oob) ==
    IF i >= Len(geoParts)
    THEN [kind |-> "done", lineList |-> lineList, oob |-> oob]
    ELSE
      LET n == geoParts[i + 1]
          raw == [j \in 1..n |-> At(geoPoints, pointIndex + j - 1)]
          past == \E j \in 1..n : pointIndex + j - 1 >= Len(geoPoints)
          pointList == [j \in 1..n |-> PointWithMeasure_fromJson(raw[j], missing)]
          oob2 == oob \/ past
      IN  IF \E j \in 1..n : pointList[j] = [t |-> "throw"]
          THEN [kind |-> "throw", error |-> "TypeError", oob |-> oob2]
          ELSE IF FirstPointMissing(pointList)
          THEN \* pointList[0].equals: property access on undefined
               [kind |-> "throw", error |-> "TypeError", oob |-> oob2]
          ELSE WalkParts(geoParts, geoPoints, i + 1, AdvanceIndex(pointIndex, n),
                         Append(lineList, Classify(pointList, n)), missing, oob2)

\* what fromJson returns when parts is empty or absent
EmptyPartsResultEmptyRoute(jsonObj) ==
    [kind |-> "route", oob |-> FALSE, route |-> NewRoute(<<>>, Obj([parts |-> jsonObj.v.parts]))]
EmptyPartsResult(jsonObj) == [kind |-> "null", oob |-> FALSE]

\* static fromJson(jsonObject)
Route_fromJson(jsonObj, missing) ==
    IF Falsy(jsonObj) THEN [kind |-> "undefined", oob |-> FALSE]
    ELSE
      LET geoParts == OrEmpty(jsonObj.v.parts).v
          geoPoints == OrEmpty(jsonObj.v.points).v
          len == Len(geoParts)
      IN  IF len > 0
          THEN LET w == WalkParts(geoParts, geoPoints, 0, 0, <<>>, missing, FALSE)
               IN  IF w.kind = "throw" THEN w
                   ELSE [kind |-> "route", oob |-> w.oob,
                         route |-> NewRoute(w.lineList,
                            Obj([id |-> jsonObj.v.id, center |-> jsonObj.v.center,
                                 style |-> jsonObj.v.style, length |-> jsonObj.v.length,
                                 maxM |-> jsonObj.v.maxM, minM |-> jsonObj.v.minM,
                                 type |-> jsonObj.v.type, parts |-> jsonObj.v.parts]))]
          ELSE EmptyPartsResult(jsonObj)


----------------------------------------------------------------------------
(* Route.prototype.toJson *)

\* this.f != null && this.f != undefined
PresentStrict(v) == v.t # "null"
Present(v) == ~LooseNull(v)

\* result += "\"key\":" + this.key + ","
Field(key, v) ==
    IF Present(v) THEN <<Q>> \o key \o <<Q, ":">> \o JsStr(v) \o <<",">> ELSE <<>>

\* result += "\"key\":\"" + this.key + "\","
QuotedField(key, v) ==
    IF Present(v) THEN <<Q>> \o key \o <<Q, ":", Q>> \o JsStr(v) \o <<Q, ",">> ELSE <<>>

K_id == <<"i", "d">>
K_center == <<"c", "e", "n", "t", "e", "r">>
K_style == <<"s", "t", "y", "l", "e">>
K_length == <<"l", "e", "n", "g", "t", "h">>
K_maxM == <<"m", "a", "x", "M">>
K_minM == <<"m", "i", "n", "M">>
K_type == <<"t", "y", "p", "e">>
K_parts == <<"p", "a", "r", "t", "s">>
K_points == <<"p", "o", "i", "n", "t", "s">>

\* "" + this.parts[k] (k is 0-based): "undefined" past the end
PartStr(parts, k) == IF k < Len(parts) THEN NumStr(parts[k + 1]) ELSE S_undefined

\* the parts block: "\"parts\":[" + parts[0] + ("," + parts[i])* + "],"
PartsText(parts) ==
    IF Present(parts)
    THEN <<Q>> \o K_parts \o <<Q, ":", "[">> \o PartStr(parts.v, 0)
           \o Concat([i \in 1..(Len(parts.v) - 1) |-> <<",">> \o PartStr(parts.v, i)])
           \o <<"]", ",">>
    ELSE <<>>

\* every component's points, in component order
AllPoints(components) == Concat([j \in 1..Len(components) |-> components[j].components])

\* the points block, applied to the text built so far
PointsText(sofar, components) ==
    IF Present(components) /\ Len(components.v) > 0
    THEN LET pts == AllPoints(components.v)
             body == Concat([k \in 1..Len(pts) |-> PointWithMeasure_toJson(pts[k]) \o <<",">>])
         IN  StripTrailingComma(sofar \o <<Q>> \o K_points \o <<Q, ":", "[">> \o body) \o <<"]">>
    ELSE sofar

\* toJson()
Route_toJson(r) ==
    IF Present(r.components) /\ (\E k \in 1..Len(AllPoints(r.components.v)) :
                                     AllPoints(r.components.v)[k] = Undefined)
    THEN \* undefined.toJson()
         [status |-> "throw", error |-> "TypeError"]
    ELSE
      LET head == <<"{">> \o Field(K_id, r.id) \o Field(K_center, r.center)
                    \o Field(K_style, r.style) \o Field(K_length, r.length)
                    \o Field(K_maxM, r.maxM) \o Field(K_minM, r.minM)
                    \o QuotedField(K_type, r.type) \o PartsText(r.parts)
          withPoints == PointsText(head, r.components)
      IN  [status |-> "ok", chars |-> StripTrailingComma(withPoints) \o <<"}">>]

\* destroy()
Route_destroy(r) ==
    IF LooseNull(r.components)
    THEN \* this.components.length = 0 on null: the fields above it are already null
         [r EXCEPT !.id = Null, !.center = Null, !.style = Null, !.length = Null,
                   !.maxM = Null, !.minM = Null, !.type = Null, !.parts = Null]
    ELSE [f \in DOMAIN r |-> Null]

----------------------------------------------------------------------------
(* Inputs of the Route operations *)

RECURSIVE SeqsUpTo(_, _)
\* the sequences over S of length 0..n
SeqsUpTo(S, n) ==
    IF n = 0 THEN {<<>>}
    ELSE LET shorter == SeqsUpTo(S, n - 1)
         IN  shorter \cup {Append(q, e) : q \in {r \in shorter : Len(r) = n - 1}, e \in S}

\* entries of a JSON points array: plain objects {x, y, measure}
PointVals ==
    { [x |-> 0, y |-> 0, measure |-> 0], [x |-> 0, y |-> 0, measure |-> 1],
      [x |-> 1, y |-> 0, measure |-> 2], [x |-> 0, y |-> 1, measure |-> 3] }

S_style == <<"r", "e", "d">>
S_type == <<"L", "I", "N", "E", "M">>

MetaNames == {"id", "center", "style", "length", "maxM", "minM", "type"}

MetaValue ==
    [id |-> Num(7), center |-> Num(5), style |-> Str(S_style), length |-> Num(12),
     maxM |-> Num(9), minM |-> Num(0), type |-> Str(S_type)]

\* the metadata in which exactly the fields of present carry a value and the
\* others are absent
Meta(present, absent) == [f \in MetaNames |-> IF f \in present THEN MetaValue[f] ELSE absent]

PartsVals == {Undefined, Null} \cup {Arr(q) : q \in SeqsUpTo(0..MaxPartSize, MaxParts)}
PointsVals == {Undefined} \cup {Arr(q) : q \in SeqsUpTo(PointVals, MaxPoints)}

WithBody(meta, parts, points) ==
    Obj([id |-> meta.id, center |-> meta.center, style |-> meta.style,
         length |-> meta.length, maxM |-> meta.maxM, minM |-> meta.minM,
         type |-> meta.type, parts |-> parts, points |-> points])

\* the arguments Route.fromJson is called with
JsonObjects ==
    {Undefined, Null}
    \cup {WithBody(Meta({}, Undefined), pa, po) : pa \in PartsVals, po \in PointsVals}
    \cup {WithBody(Meta(pr, Undefined), pa, Arr(<<>>)) :
             pr \in SUBSET MetaNames, pa \in {Undefined, Arr(<<>>)}}
    \cup {WithBody(Meta(pr, Undefined),
                   Arr(<<1>>), Arr(<<[x |-> 0, y |-> 0, measure |-> 0]>>)) :
             pr \in {{"id", "style"}, {"center", "type", "minM"}, MetaNames}}

\* the arguments new Route(points, options) is called with by an application
CtorLines ==
    { <<>>,
      <<LineString(<<[t |-> "PointWithMeasure", x |-> 0, y |-> 0, measure |-> 0],
                     [t |-> "PointWithMeasure", x |-> 1, y |-> 0, measure |-> 2]>>)>>,
      <<LineString(<<>>)>> }

CtorParts == {Null, Arr(<<>>), Arr(<<2>>), Arr(<<1, 2>>)}

CtorOptions ==
    {Undefined}
    \cup {Obj([id |-> m.id, center |-> m.center, style |-> m.style, length |-> m.length,
               maxM |-> m.maxM, minM |-> m.minM, type |-> m.type, parts |-> pa]) :
             m \in {Meta(pr, Null) : pr \in SUBSET MetaNames}, pa \in CtorParts}

CtorArgs == {[points |-> li, options |-> op] : li \in CtorLines, op \in CtorOptions}

NoCall == [t |-> "none"]
NoResult == [kind |-> "none", oob |-> FALSE]
NoRoute == [t |-> "none"]
NoText == [status |-> "none"]

----------------------------------------------------------------------------
(* The Route operations as actions *)

NoFormat == [internalProjection |-> Null, externalProjection |-> Null]
NoDecoded == [t |-> "none"]

\* the WKT codec is not in use
IdleWKT == codec = NoFormat /\ toWrite = NoCall /\ wktText = NoText /\ decoded = NoDecoded

InitRoute ==
    /\ IdleWKT
    /\ \/ jsonObject \in JsonObjects /\ ctorArgs = NoCall
       \/ jsonObject = NoCall /\ ctorArgs \in CtorArgs
    /\ result = NoResult
    /\ route = NoRoute
    /\ text = NoText
    /\ prevText = NoText
    /\ runs = 0
    /\ lastOp = "init"

\* Route.fromJson(json); the application keeps the Route it gets, if any
fromJson ==
    \E missing \in {"throw", "keep"} :
        /\ jsonObject # NoCall
        /\ result' = Route_fromJson(jsonObject, missing)
        /\ route' = IF result'.kind = "route" THEN result'.route ELSE NoRoute
        /\ text' = NoText
        /\ prevText' = NoText
        /\ runs' = 0
        /\ lastOp' = "fromJson"
        /\ UNCHANGED <<jsonObject, ctorArgs, wktVars>>

\* new Route(points, options)
newRoute ==
    /\ ctorArgs # NoCall
    /\ route' = NewRoute(ctorArgs.points, ctorArgs.options)
    /\ result' = NoResult
    /\ text' = NoText
    /\ prevText' = NoText
    /\ runs' = 0
    /\ lastOp' = "new"
    /\ UNCHANGED <<jsonObject, ctorArgs, wktVars>>

\* route.toJson()
toJsonShiftingParts ==
    /\ route # NoRoute
    /\ text' = Route_toJson(route)
    /\ prevText' = text
    /\ runs' = IF runs < MaxRuns THEN runs + 1 ELSE runs
    /\ route' = IF Present(route.parts) /\ Len(route.parts.v) > 0
                THEN [route EXCEPT !.parts = Arr(Tail(route.parts.v))] ELSE route
    /\ lastOp' = "toJson"
    /\ UNCHANGED <<jsonObject, ctorArgs, result, wktVars>>

toJson ==
    /\ route # NoRoute
    /\ text' = Route_toJson(route)
    /\ prevText' = text
    /\ runs' = IF runs < MaxRuns THEN runs + 1 ELSE runs
    /\ lastOp' = "toJson"
    /\ UNCHANGED <<jsonObject, ctorArgs, result, route, wktVars>>

\* route.destroy()
destroy ==
    /\ route # NoRoute
    /\ route' = Route_destroy(route)
    /\ text' = NoText
    /\ prevText' = NoText
    /\ runs' = 0
    /\ lastOp' = "destroy"
    /\ UNCHANGED <<jsonObject, ctorArgs, result, wktVars>>

NextRoute == fromJson \/ newRoute \/ toJson \/ destroy

SpecRoute == InitRoute /\ [][NextRoute]_vars

----------------------------------------------------------------------------
(* Characters and regular expressions of the WKT codec *)

UpperCase ==
    <<"A", "B", "C", "D", "E", "F", "G", "H", "I", "J", "K", "L", "M",
      "N", "O", "P", "Q", "R", "S", "T", "U", "V", "W", "X", "Y", "Z">>
LowerCase ==
    <<"a", "b", "c", "d", "e", "f", "g", "h", "i", "j", "k", "l", "m",
      "n", "o", "p", "q", "r", "s", "t", "u", "v", "w", "x", "y", "z">>

Range(q) == {q[i] : i \in 1..Len(q)}

\* \s
IsSpace(c) == c \in {" ", "\t", "\n", "\r", "\f"}
\* [A-Za-z]
IsLetter(c) == c \in Range(UpperCase) \cup Range(LowerCase)
\* \w
IsWord(c) == IsLetter(c) \/ c \in Range(Digits) \/ c = "_"

\* s.toLowerCase() / s.toUpperCase()
LowerChar(c) ==
    IF c \in Range(UpperCase)
    THEN LowerCase[CHOOSE i \in 1..Len(UpperCase) : UpperCase[i] = c] ELSE c
UpperChar(c) ==
    IF c \in Range(LowerCase)
    THEN UpperCase[CHOOSE i \in 1..Len(LowerCase) : LowerCase[i] = c] ELSE c
ToLowerCase(s) == [i \in 1..Len(s) |-> LowerChar(s[i])]
ToUpperCase(s) == [i \in 1..Len(s) |-> UpperChar(s[i])]

\* wkt.replace(/[\n\r]/g, " ")
NormalizeBreaks(s) == [i \in 1..Len(s) |-> IF s[i] \in {"\n", "\r"} THEN " " ELSE s[i]]

\* number of leading / trailing whitespace characters of s
LeadingSpaces(s) ==
    IF \A i \in 1..Len(s) : IsSpace(s[i]) THEN Len(s)
    ELSE (CHOOSE i \in 1..Len(s) : ~IsSpace(s[i]) /\ \A j \in 1..(i - 1) : IsSpace(s[j])) - 1
TrailingSpaces(s) ==
    IF \A i \in 1..Len(s) : IsSpace(s[i]) THEN Len(s)
    ELSE Len(s) - (CHOOSE i \in 1..Len(s) :
                      ~IsSpace(s[i]) /\ \A j \in (i + 1)..Len(s) : IsSpace(s[j]))

DropLeadingSpaces(s) == SubSeq(s, LeadingSpaces(s) + 1, Len(s))
DropTrailingSpaces(s) == SubSeq(s, 1, Len(s) - TrailingSpaces(s))

\* SuperMap.String.trim(s)
Trim(s) == DropTrailingSpaces(DropLeadingSpaces(s))

\* regExes.typeStr.exec(s):  /^\s*(\w+)\s*\(\s*(.*)\s*\)\s*$/
\* The word is the maximal run of word characters after the leading blanks;
\* blanks and "(" follow it; the string ends with ")" and blanks; the body is
\* what lies between the blanks after "(" and that last ")" (the greedy .*
\* keeps the blanks before the last ")").
Exec_typeStr(s) ==
    LET a == LeadingSpaces(s) + 1
        rest == SubSeq(s, a, Len(s))
        wlen == IF \A i \in 1..Len(rest) : IsWord(rest[i]) THEN Len(rest)
                ELSE (CHOOSE i \in 1..Len(rest) :
                         ~IsWord(rest[i]) /\ \A j \in 1..(i - 1) : IsWord(rest[j])) - 1
        afterWord == SubSeq(rest, wlen + 1, Len(rest))
        open == LeadingSpaces(afterWord) + 1
        tail == SubSeq(afterWord, open + 1, Len(afterWord))
        closed == DropTrailingSpaces(tail)
    IN  IF /\ wlen >= 1
           /\ open <= Len(afterWord) /\ afterWord[open] = "("
           /\ Len(closed) >= 1 /\ closed[Len(closed)] = ")"
           /\ \A i \in 1..Len(s) : s[i] \notin {"\n", "\r"}
        THEN [matched |-> TRUE, type |-> SubSeq(rest, 1, wlen),
              str |-> DropLeadingSpaces(SubSeq(closed, 1, Len(closed) - 1))]
        ELSE [matched |-> FALSE]

\* s.replace(regExes.trimParens, '$1'):  /^\s*\(?(.*?)\)?\s*$/
\* leading blanks and one "(" are dropped, then trailing blanks and one ")"
Replace_trimParens(s) ==
    LET a == DropLeadingSpaces(s)
        b == IF Len(a) > 0 /\ a[1] = "(" THEN Tail(a) ELSE a
        c == DropTrailingSpaces(b)
    IN  IF Len(c) > 0 /\ c[Len(c)] = ")" THEN SubSeq(c, 1, Len(c) - 1) ELSE c

\* length of the match of the separator pattern sep at position i of s, or 0.
\* sep is a sequence of literal characters; blanks may stand between them
\* (the pattern has \s* between any two of its characters).
RECURSIVE MatchLen(_, _, _)
MatchLen(s, i, sep) ==
    IF sep = <<>> THEN 0
    ELSE IF i > Len(s) \/ s[i] # Head(sep) THEN -1
    ELSE IF Len(sep) = 1 THEN 1
    ELSE LET blanks == LeadingSpaces(SubSeq(s, i + 1, Len(s)))
             m == MatchLen(s, i + 1 + blanks, Tail(sep))
         IN  IF m < 0 THEN -1 ELSE 1 + blanks + m

\* the positions of s where the separator pattern matches.  A match holds
\* blanks and the separator's own characters only, and no separator used
\* here can start again inside its own match, so these are the successive
\* leftmost matches the engine finds.
Matches(s, sep) == {i \in 1..Len(s) : MatchLen(s, i, sep) > 0}

\* s.split(pattern): the pieces between the successive leftmost matches
Split(s, sep) ==
    LET M == Matches(s, sep)
        nth(k) == CHOOSE i \in M : Cardinality({j \in M : j <= i}) = k
        from(k) == IF k = 1 THEN 1 ELSE nth(k - 1) + MatchLen(s, nth(k - 1), sep)
        to(k) == IF k = Cardinality(M) + 1 THEN Len(s) ELSE nth(k) - 1
    IN  [k \in 1..(Cardinality(M) + 1) |-> SubSeq(s, from(k), to(k))]

\* s.split(',')
Split_comma(s) == Split(s, <<",">>)
\* s.split('|')
Split_bar(s) == Split(s, <<"|">>)
\* s.split(regExes.parenComma):  /\)\s*,\s*\(/
Split_parenComma(s) == Split(s, <<")", ",", "(">>)
\* s.split(regExes.doubleParenComma):  /\)\s*\)\s*,\s*\(\s*\(/
Split_doubleParenComma(s) == Split(s, <<")", ")", ",", "(", "(">>)

RECURSIVE Split_spaces(_)
\* s.split(regExes.spaces):  /\s+/
Split_spaces(s) ==
    IF \A i \in 1..Len(s) : ~IsSpace(s[i]) THEN <<s>>
    ELSE LET i == CHOOSE k \in 1..Len(s) :
                      IsSpace(s[k]) /\ \A j \in 1..(k - 1) : ~IsSpace(s[j])
             after == SubSeq(s, i, Len(s))
         IN  <<SubSeq(s, 1, i - 1)>> \o Split_spaces(DropLeadingSpaces(after))

\* str.replace(/,\s*([A-Za-z])/g, '|$1'): every comma that is followed, after
\* blanks, by a letter becomes "|" and those blanks are dropped
Replace_commaLetter(s) ==
    LET letterAt(i) == i + 1 + LeadingSpaces(SubSeq(s, i + 1, Len(s)))
        matched(i) == s[i] = "," /\ letterAt(i) <= Len(s) /\ IsLetter(s[letterAt(i)])
        M == {i \in 1..Len(s) : matched(i)}
        dropped(p) == \E i \in M : i < p /\ p < letterAt(i)
        marked == [p \in 1..Len(s) |->
                      IF p \in M THEN "|" ELSE IF dropped(p) THEN "" ELSE s[p]]
        kept(c) == c # ""
    IN  SelectSeq(marked, kept)

\* array.join(sep) of strings; null and undefined elements join as ""
RECURSIVE Join(_, _)
Join(ss, sep) ==
    IF ss = <<>> THEN <<>>
    ELSE IF Len(ss) = 1 THEN Head(ss)
    ELSE Head(ss) \o sep \o Join(Tail(ss), sep)

----------------------------------------------------------------------------
(* Geometry model used by the WKT codec *)

\* geometry.CLASS_NAME.split('.')[2] is the CLASS_NAME field of the model
Point(x, y) == [CLASS_NAME |-> "Point", x |-> x, y |-> y]
Geometry(kind, components) == [CLASS_NAME |-> kind, components |-> components]
Vector(geometry) ==
    [t |-> "object", CLASS_NAME |-> "SuperMap.Feature.Vector", geometry |-> geometry]

KindNames ==
    [Point |-> <<"p", "o", "i", "n", "t">>,
     MultiPoint |-> <<"m", "u", "l", "t", "i", "p", "o", "i", "n", "t">>,
     LineString |-> <<"l", "i", "n", "e", "s", "t", "r", "i", "n", "g">>,
     LinearRing |-> <<"l", "i", "n", "e", "a", "r", "r", "i", "n", "g">>,
     MultiLineString |-> <<"m", "u", "l", "t", "i", "l", "i", "n", "e", "s", "t", "r", "i", "n", "g">>,
     Polygon |-> <<"p", "o", "l", "y", "g", "o", "n">>,
     MultiPolygon |-> <<"m", "u", "l", "t", "i", "p", "o", "l", "y", "g", "o", "n">>,
     Collection |-> <<"c", "o", "l", "l", "e", "c", "t", "i", "o", "n">>]

\* geometry.CLASS_NAME.split('.')[2].toLowerCase()
TypeOf(geometry) == KindNames[geometry.CLASS_NAME]

S_GEOMETRYCOLLECTION ==
    <<"G", "E", "O", "M", "E", "T", "R", "Y", "C", "O", "L", "L", "E", "C", "T", "I", "O", "N">>

\* the keys of the extract table
ExtractKinds ==
    {"Point", "MultiPoint", "LineString", "MultiLineString", "Polygon",
     "MultiPolygon", "Collection"}

RECURSIVE Transform(_, _, _)
\* geometry.clone() followed by geometry.transform(source, dest): the
\* coordinate-transform collaborator, here the shift by the difference of the
\* two systems' codes, applied to every coordinate of the geometry
Transform(geometry, source, dest) ==
    IF geometry.CLASS_NAME = "Point"
    THEN [geometry EXCEPT !.x = @ + (dest.code - source.code),
                          !.y = @ + (dest.code - source.code)]
    ELSE [geometry EXCEPT !.components =
              [i \in 1..Len(@) |-> Transform(@[i], source, dest)]]

\* this.internalProjection && this.externalProjection
Configured(format) ==
    ~Falsy(format.internalProjection) /\ ~Falsy(format.externalProjection)

----------------------------------------------------------------------------
(* WKT.prototype.write *)

\* extract.point
Extract_point(point) == NumStr(point.x) \o <<" ">> \o NumStr(point.y)

\* extract.linestring
Extract_linestring(linestring) ==
    Join([i \in 1..Len(linestring.components) |->
              Extract_point(linestring.components[i])], <<",">>)

\* extract.multipoint
Extract_multipoint(multipoint) ==
    Join([i \in 1..Len(multipoint.components) |->
              <<"(">> \o Extract_point(multipoint.components[i]) \o <<")">>], <<",">>)

\* extract.multilinestring
Extract_multilinestring(multilinestring) ==
    Join([i \in 1..Len(multilinestring.components) |->
              <<"(">> \o Extract_linestring(multilinestring.components[i]) \o <<")">>],
         <<",">>)

\* extract.polygon
Extract_polygon(polygon) ==
    Join([i \in 1..Len(polygon.components) |->
              <<"(">> \o Extract_linestring(polygon.components[i]) \o <<")">>], <<",">>)

\* extract.multipolygon
Extract_multipolygon(multipolygon) ==
    Join([i \in 1..Len(multipolygon.components) |->
              <<"(">> \o Extract_polygon(multipolygon.components[i]) \o <<")">>], <<",">>)

\* the text an element of an array contributes to array.join: "" for null
Piece(v) == IF v = Null THEN <<>> ELSE v.v

RECURSIVE ExtractGeometry(_, _)
\* extractGeometry(geometry): Null, or Str(text)
ExtractGeometry(geometry, format) ==
    IF geometry.CLASS_NAME \notin ExtractKinds THEN Null
    ELSE
      LET g == IF Configured(format)
               THEN Transform(geometry, format.internalProjection, format.externalProjection)
               ELSE geometry
          kind == g.CLASS_NAME
          wktType == IF kind = "Collection" THEN S_GEOMETRYCOLLECTION
                     ELSE ToUpperCase(TypeOf(g))
          body ==
            CASE kind = "Point" -> Extract_point(g)
              [] kind = "MultiPoint" -> Extract_multipoint(g)
              [] kind = "LineString" -> Extract_linestring(g)
              [] kind = "MultiLineString" -> Extract_multilinestring(g)
              [] kind = "Polygon" -> Extract_polygon(g)
              [] kind = "MultiPolygon" -> Extract_multipolygon(g)
              [] kind = "Collection" ->
                   \* extract.collection
                   Join([i \in 1..Len(g.components) |->
                             Piece(ExtractGeometry(g.components[i], format))], <<",">>)
      IN  Str(wktType \o <<"(">> \o body \o <<")">>)

\* write(features): features is one feature or Arr of features
WKT_write(features, format) ==
    LET isCollection == features.t = "array"
        collection == IF isCollection THEN features.v ELSE <<features>>
        pieces ==
            (IF isCollection THEN <<S_GEOMETRYCOLLECTION \o <<"(">> >> ELSE <<>>)
            \o Concat([i \in 1..Len(collection) |->
                  (IF isCollection /\ i > 1 THEN << <<",">> >> ELSE <<>>)
                  \o <<Piece(ExtractGeometry(collection[i].geometry, format))>>])
            \o (IF isCollection THEN << <<")">> >> ELSE <<>>)
    IN  Join(pieces, <<>>)

----------------------------------------------------------------------------
(* WKT.prototype.read *)

Throw(error, at) == [t |-> "throw", error |-> error, at |-> at]
IsThrow(v) == v.t = "throw"

\* the first raised error among the results rs, in evaluation order, if any
FirstThrow(rs) ==
    IF \E i \in 1..Len(rs) : IsThrow(rs[i])
    THEN rs[CHOOSE i \in 1..Len(rs) : IsThrow(rs[i]) /\ \A j \in 1..(i - 1) : ~IsThrow(rs[j])]
    ELSE Null

\* new Supermap.Point(...), new Supermap.LineString(...), ...: the module
\* imports SuperMap and declares no Supermap, so evaluating the identifier
\* raises a ReferenceError before anything is constructed
New_Supermap(kind, args) == Throw("ReferenceError", kind)

\* new SuperMap.Feature.Vector(geometry), geometry being the value of a
\* new Supermap... expression
New_Vector(geometry) == IF IsThrow(geometry) THEN geometry ELSE Vector(geometry)

\* the parsers applied to every fragment in turn, stopping at the first error;
\* gives the error, or Arr of the features' geometries
Geometries(features) ==
    IF FirstThrow(features) # Null THEN FirstThrow(features)
    ELSE Arr([i \in 1..Len(features) |-> features[i].geometry])

\* parse.point
Parse_point(str) ==
    LET point(coords) == New_Supermap("Point", <<At(coords, 0), At(coords, 1)>>)
    IN  New_Vector(point(Split_spaces(Trim(str))))

\* parse.multipoint
Parse_multipoint(str) ==
    LET components(points) ==
            Geometries([i \in 1..Len(points) |-> Parse_point(Replace_trimParens(points[i]))])
        multipoint(cs) ==
            IF IsThrow(cs) THEN cs ELSE New_Vector(New_Supermap("MultiPoint", cs.v))
    IN  multipoint(components(Split_comma(Trim(str))))

\* parse.linestring
Parse_linestring(str) ==
    LET components(points) ==
            Geometries([i \in 1..Len(points) |-> Parse_point(points[i])])
        linestring(cs) ==
            IF IsThrow(cs) THEN cs ELSE New_Vector(New_Supermap("LineString", cs.v))
    IN  linestring(components(Split_comma(Trim(str))))

\* parse.multilinestring
Parse_multilinestring(str) ==
    LET components(lines) ==
            Geometries([i \in 1..Len(lines) |->
                           Parse_linestring(Replace_trimParens(lines[i]))])
        multilinestring(cs) ==
            IF IsThrow(cs) THEN cs ELSE New_Vector(New_Supermap("MultiLineString", cs.v))
    IN  multilinestring(components(Split_parenComma(Trim(str))))

\* parse.polygon
Parse_polygon(str) ==
    LET ringOf(linestring) ==
            IF IsThrow(linestring) THEN linestring
            ELSE New_Supermap("LinearRing", linestring.geometry.components)
        components(rings) ==
            [i \in 1..Len(rings) |-> ringOf(Parse_linestring(Replace_trimParens(rings[i])))]
        polygon(cs) ==
            IF FirstThrow(cs) # Null THEN FirstThrow(cs)
            ELSE New_Vector(New_Supermap("Polygon", cs))
    IN  polygon(components(Split_parenComma(Trim(str))))

\* parse.multipolygon
Parse_multipolygon(str) ==
    LET components(polygons) ==
            Geometries([i \in 1..Len(polygons) |->
                           Parse_polygon(Replace_trimParens(polygons[i]))])
        multipolygon(cs) ==
            IF IsThrow(cs) THEN cs ELSE New_Vector(New_Supermap("MultiPolygon", cs.v))
    IN  multipolygon(components(Split_doubleParenComma(Trim(str))))

\* WKT.read(fragment) inside parse.geometrycollection: read is a method of the
\* instances; the class WKT itself has no member read, so the call raises
WKT_static_read(wkt) == Throw("TypeError", "WKT.read")

\* parse.geometrycollection
Parse_geometrycollection(str) ==
    LET components(wktArray) ==
            [i \in 1..Len(wktArray) |-> WKT_static_read(wktArray[i])]
        collection(cs) == IF FirstThrow(cs) # Null THEN FirstThrow(cs) ELSE Arr(cs)
    IN  collection(components(Split_bar(Trim(Replace_commaLetter(str)))))

S_constructor == <<"c", "o", "n", "s", "t", "r", "u", "c", "t", "o", "r">>
S_proto == <<"_", "_", "p", "r", "o", "t", "o", "_", "_">>
S_geometrycollection == ToLowerCase(S_GEOMETRYCOLLECTION)

\* the keys of the parse table
ParseKinds ==
    {KindNames.Point, KindNames.MultiPoint, KindNames.LineString,
     KindNames.MultiLineString, KindNames.Polygon, KindNames.MultiPolygon,
     S_geometrycollection}

\* this.parse[type]: a parser of the table, a member the table inherits from
\* Object.prototype (of the lower-case names only constructor and __proto__
\* exist there), or nothing
Lookup_parse(type) ==
    IF type \in ParseKinds THEN "parser"
    ELSE IF type = S_constructor THEN "Object"
    ELSE IF type = S_proto THEN "Object.prototype"
    ELSE "undefined"

\* this.parse[type].apply(this, [str])
Apply_parse(type, str) ==
    CASE type = KindNames.Point -> Parse_point(str)
      [] type = KindNames.MultiPoint -> Parse_multipoint(str)
      [] type = KindNames.LineString -> Parse_linestring(str)
      [] type = KindNames.MultiLineString -> Parse_multilinestring(str)
      [] type = KindNames.Polygon -> Parse_polygon(str)
      [] type = KindNames.MultiPolygon -> Parse_multipolygon(str)
      [] type = S_geometrycollection -> Parse_geometrycollection(str)
      [] type = S_constructor -> \* Object(str): a String object wrapping str
                                 [t |-> "object", CLASS_NAME |-> "String", v |-> str]
      [] type = S_proto -> \* Object.prototype has no apply
                           Throw("TypeError", "apply")

\* read(wkt): Undefined, a feature, Arr of features, or a raised error
WKT_read(wkt, format) ==
    LET parsed(type, str) ==
            IF Lookup_parse(type) # "undefined" THEN Apply_parse(type, str) ELSE Undefined
        transformed(type, features) ==
            IF ~Configured(format) \/ IsThrow(features) \/ Falsy(features)
            THEN features
            ELSE IF features.t = "object"
                    /\ features.CLASS_NAME = "SuperMap.Feature.Vector"
            THEN Vector(Transform(features.geometry, format.externalProjection,
                                  format.internalProjection))
            ELSE IF type # S_geometrycollection /\ features.t \in {"object", "array"}
                    /\ Len(features.v) > 0
            THEN \* features[0].geometry is undefined: .transform raises
                 Throw("TypeError", "transform")
            ELSE features
        decode(matches) ==
            IF ~matches.matched THEN Undefined
            ELSE transformed(ToLowerCase(matches.type),
                             parsed(ToLowerCase(matches.type), matches.str))
    IN  decode(Exec_typeStr(NormalizeBreaks(wkt)))

----------------------------------------------------------------------------
(* Inputs of the WKT operations *)

MaxCoord == 1   \* largest coordinate of a geometry handed to write
MaxMulti == 2   \* most components of a multi-part geometry or feature array

\* the sequences over S of length lo..hi
SeqsFromTo(S, lo, hi) == {q \in SeqsUpTo(S, hi) : Len(q) >= lo}

Origin == Point(0, 0)
Points == {Point(x, y) : x \in 0..MaxCoord, y \in 0..MaxCoord}

LinePaths ==
    {<<Origin, q>> : q \in Points \ {Origin}}
    \cup {<<Origin, Point(MaxCoord, 0), Point(MaxCoord, MaxCoord)>>}
RingPaths == {<<Origin, Point(1, 0), r, Origin>> : r \in Points \ {Origin, Point(1, 0)}}

LineStrings == {Geometry("LineString", q) : q \in LinePaths}
LinearRings == {Geometry("LinearRing", q) : q \in RingPaths}
MultiPoints == {Geometry("MultiPoint", q) : q \in SeqsFromTo(Points, 1, MaxMulti)}
MultiLineStrings ==
    {Geometry("MultiLineString", q) : q \in SeqsFromTo(LineStrings, 1, MaxMulti)}
Polygons == {Geometry("Polygon", q) : q \in SeqsFromTo(LinearRings, 1, MaxMulti)}

SomeLine == Geometry("LineString", <<Origin, Point(1, 1)>>)
SomeRing == Geometry("LinearRing", <<Origin, Point(1, 0), Point(1, 1), Origin>>)
SomePolygon == Geometry("Polygon", <<SomeRing>>)
HoledPolygon ==
    Geometry("Polygon",
             <<SomeRing, Geometry("LinearRing", <<Origin, Point(1, 0), Point(0, 1), Origin>>)>>)

MultiPolygons ==
    {Geometry("MultiPolygon", q) : q \in SeqsFromTo({SomePolygon, HoledPolygon}, 1, MaxMulti)}

InnerCollection == Geometry("Collection", <<Point(1, 0), SomeLine>>)
Collections ==
    {Geometry("Collection", q) :
        q \in SeqsUpTo({Origin, SomeLine, SomePolygon, SomeRing, InnerCollection}, MaxMulti)}

\* the geometries of the kinds the codec supports
Supported(geometry) ==
    /\ geometry.CLASS_NAME \in ExtractKinds
    /\ geometry.CLASS_NAME = "Collection" =>
          \A i \in 1..Len(geometry.components) :
              /\ geometry.components[i].CLASS_NAME \in ExtractKinds
              /\ geometry.components[i].CLASS_NAME = "Collection" =>
                    \A j \in 1..Len(geometry.components[i].components) :
                        geometry.components[i].components[j].CLASS_NAME \in ExtractKinds

Geometries_in ==
    Points \cup LineStrings \cup MultiPoints \cup MultiLineStrings \cup Polygons
    \cup MultiPolygons \cup Collections \cup {SomeRing}

\* the arguments write is called with
FeatureInputs ==
    {Vector(g) : g \in Geometries_in}
    \cup {Arr(q) : q \in SeqsUpTo({Vector(Origin), Vector(SomeLine), Vector(SomeRing)},
                                  MaxMulti)}

T_multilinestring ==
    <<"M", "U", "L", "T", "I", "L", "I", "N", "E", "S", "T", "R", "I", "N", "G", "(", "(",
      "0", " ", "0", ",", "1", " ", "1", ")", ",", "(", "2", " ", "2", ",", "3", " ", "3",
      ")", ")">>
T_multipolygon ==
    <<"M", "U", "L", "T", "I", "P", "O", "L", "Y", "G", "O", "N", "(", "(", "(", "0", " ",
      "0", ",", "1", " ", "0", ",", "1", " ", "1", ",", "0", " ", "0", ")", ")", ",", "(",
      "(", "2", " ", "2", ",", "3", " ", "2", ",", "3", " ", "3", ",", "2", " ", "2", ")",
      ")", ")">>
T_multilinestring_blanks ==
    <<"M", "u", "l", "t", "i", "L", "i", "n", "e", "S", "t", "r", "i", "n", "g", " ", "(",
      " ", "(", "0", " ", "0", ",", " ", "1", " ", "1", ")", " ", ",", " ", "(", "2", " ",
      "2", ",", "3", " ", "3", ")", " ", ")">>
T_notageom ==
    <<"N", "O", "T", "A", "G", "E", "O", "M", "(", "1", " ", "2", ")">>
T_point_blanks ==
    <<" ", "p", "o", "i", "n", "t", " ", "(", " ", "1", " ", "2", " ", ")", " ">>
T_point_linebreak ==
    <<"P", "O", "I", "N", "T", "(", "1", "\n", "2", ")">>
T_no_parens ==
    <<"P", "O", "I", "N", "T", " ", "1", " ", "2">>
T_unclosed ==
    <<"P", "O", "I", "N", "T", "(", "1", " ", "2">>
T_empty ==<<>>
T_constructor ==
    <<"c", "o", "n", "s", "t", "r", "u", "c", "t", "o", "r", "(", "1", " ", "2", ")">>
T_constructor_empty ==
    <<"c", "o", "n", "s", "t", "r", "u", "c", "t", "o", "r", "(", ")">>
T_proto ==
    <<"_", "_", "p", "r", "o", "t", "o", "_", "_", "(", "1", " ", "2", ")">>
T_collection ==
    <<"G", "E", "O", "M", "E", "T", "R", "Y", "C", "O", "L", "L", "E", "C", "T", "I", "O",
      "N", "(", "P", "O", "I", "N", "T", "(", "1", " ", "2", ")", ",", "L", "I", "N", "E",
      "S", "T", "R", "I", "N", "G", "(", "0", " ", "0", ",", "1", " ", "1", ")", ")">>

\* the texts read is called with, besides the texts write returns
TextInputs ==
    {T_multilinestring, T_multipolygon, T_multilinestring_blanks, T_notageom,
     T_point_blanks, T_point_linebreak, T_no_parens, T_unclosed, T_empty,
     T_constructor, T_constructor_empty, T_proto, T_collection}

Projection(code) == [t |-> "projection", code |-> code]

\* the configurations of the WKT instance
Formats ==
    {NoFormat,
     [internalProjection |-> Projection(0), externalProjection |-> Null],
     [internalProjection |-> Projection(0), externalProjection |-> Projection(1)]}

----------------------------------------------------------------------------
(* The WKT operations as actions *)

IdleRoute ==
    /\ jsonObject = NoCall /\ ctorArgs = NoCall /\ result = NoResult
    /\ route = NoRoute /\ text = NoText /\ prevText = NoText /\ runs = 0

InitWKT ==
    /\ IdleRoute
    /\ codec \in Formats
    /\ \/ toWrite \in FeatureInputs /\ wktText = NoText
       \/ toWrite = NoCall /\ wktText \in {[status |-> "ok", chars |-> t] : t \in TextInputs}
    /\ decoded = NoDecoded
    /\ lastOp = "init"

\* wkt = format.write(features)
write ==
    /\ toWrite # NoCall
    /\ wktText' = [status |-> "ok", chars |-> WKT_write(toWrite, codec)]
    /\ decoded' = NoDecoded
    /\ lastOp' = "write"
    /\ UNCHANGED <<codec, toWrite, routeVars>>

\* features = format.read(wkt)
read ==
    /\ wktText # NoText
    /\ decoded' = WKT_read(wktText.chars, codec)
    /\ lastOp' = "read"
    /\ UNCHANGED <<codec, toWrite, wktText, routeVars>>

NextWKT == write \/ read

SpecWKT == InitWKT /\ [][NextWKT]_vars

----------------------------------------------------------------------------
(* Claims about Route.fromJson *)

Called == result # NoResult
IsObject == jsonObject.t = "object"
InParts == OrEmpty(jsonObject.v.parts).v
InPoints == OrEmpty(jsonObject.v.points).v

\* the point object a JSON entry stands for
AsPoint(p) == [t |-> "PointWithMeasure", x |-> p.x, y |-> p.y, measure |-> p.measure]

\* number of points before part i (1-based)
Offset(i) == Sum(SubSeq(InParts, 1, i - 1))

\* the slice of the flat points array that belongs to part i
Slice(i) == [j \in 1..InParts[i] |-> InPoints[Offset(i) + j]]

ValidJson ==
    /\ IsObject
    /\ Len(InParts) > 0
    /\ \A i \in 1..Len(InParts) : InParts[i] >= 1
    /\ Sum(InParts) = Len(InPoints)

C3_ShortPointsRaise ==
    (Called /\ IsObject /\ Len(InParts) > 0 /\ Len(InPoints) < Sum(InParts)) =>
        (result.kind = "throw" /\ ~result.oob)

\* C4: fromJson yields undefined or null, and no Route, whenever the JSON
\* object is absent or its parts field is absent or an empty array.
C4_NoResultWithoutParts ==
    (Called /\ (~IsObject \/ Len(InParts) = 0)) => result.kind \in {"undefined", "null"}

C4_Witness ==
    /\ Called /\ IsObject
    /\ jsonObject.v.parts = Arr(<<>>)
    /\ Len(InPoints) > 0
    /\ result.kind = "null"

----------------------------------------------------------------------------
(* Claims about Route.prototype.toJson *)

Encoded == route # NoRoute /\ text.status = "ok"

\* the text "key": of a JSON member
KeyText(key) == <<Q>> \o key \o <<Q, ":">>

HasKey(key) == Contains(text.chars, KeyText(key))

\* the numbers of ns as text, separated by commas
JoinNums(ns) ==
    Concat([i \in 1..Len(ns) |-> (IF i > 1 THEN <<",">> ELSE <<>>) \o NumStr(ns[i])])

\* C5: toJson emits the key of a field among id, center, style, length, maxM,
\* minM, type, parts exactly when the field is set (neither null nor
\* undefined) on the Route, and never emits a member whose value is null.
C5_KeyIffPresent ==
    Encoded =>
        /\ HasKey(K_id) <=> ~LooseNull(route.id)
        /\ HasKey(K_center) <=> ~LooseNull(route.center)
        /\ HasKey(K_style) <=> ~LooseNull(route.style)
        /\ HasKey(K_length) <=> ~LooseNull(route.length)
        /\ HasKey(K_maxM) <=> ~LooseNull(route.maxM)
        /\ HasKey(K_minM) <=> ~LooseNull(route.minM)
        /\ HasKey(K_type) <=> ~LooseNull(route.type)
        /\ HasKey(K_parts) <=> ~LooseNull(route.parts)
        /\ ~Contains(text.chars, <<":">> \o S_null)
        /\ ~Contains(text.chars, <<":", Q>> \o S_null)

C5_Witness ==
    /\ Encoded
    /\ LooseNull(route.center) /\ ~HasKey(K_center)
    /\ ~LooseNull(route.id) /\ HasKey(K_id)
    /\ ~LooseNull(route.minM) /\ HasKey(K_minM)
    /\ ~LooseNull(route.parts) /\ HasKey(K_parts)
    /\ LooseNull(route.type)

\* C6 (as claimed): whenever parts is non-null, toJson emits it as a flat
\* numeric array holding exactly the part counts in order, also when parts is
\* the empty array.
C6_PartsFlatArray ==
    (Encoded /\ ~LooseNull(route.parts)) =>
        Contains(text.chars,
                 KeyText(K_parts) \o <<"[">> \o JoinNums(route.parts.v) \o <<"]">>)

\* a JSON member "key":value is followed by "," or closes the object
HasMember(key, value) ==
    \/ Contains(text.chars, KeyText(key) \o value \o <<",">>)
    \/ Contains(text.chars, KeyText(key) \o value \o <<"}">>)

\* C7 (as claimed): the text follows the Route JSON schema: id, center,
\* length, maxM, minM are bare numbers, style and type are double-quoted
\* strings.
C7_SchemaTypes ==
    Encoded =>
        /\ \A f \in {"id", "center", "length", "maxM", "minM"} :
              ~LooseNull(route[f]) =>
                  HasMember(CASE f = "id" -> K_id [] f = "center" -> K_center
                              [] f = "length" -> K_length [] f = "maxM" -> K_maxM
                              [] f = "minM" -> K_minM,
                            NumStr(route[f].v))
        /\ ~LooseNull(route.style) => HasMember(K_style, <<Q>> \o route.style.v \o <<Q>>)
        /\ ~LooseNull(route.type) => HasMember(K_type, <<Q>> \o route.type.v \o <<Q>>)

\* C8: a toJson call leaves the Route as it was, and a toJson call that
\* directly follows another one on the same Route returns the same text.
C8_Repeatable ==
    [][lastOp' = "toJson" =>
          /\ route' = route
          /\ (lastOp = "toJson" => text' = text)]_vars

C8_Witness ==
    /\ Encoded
    /\ runs >= 2 /\ lastOp = "toJson"
    /\ prevText = text
    /\ HasKey(K_points) /\ HasKey(K_parts)

----------------------------------------------------------------------------
(* Claims about WKT.read and WKT.write, checked under SpecWKT *)

\* the codec wrote the feature toWrite and then read the text back
ReadBack ==
    /\ lastOp = "read"
    /\ toWrite # NoCall
    /\ wktText.chars = WKT_write(toWrite, codec)

IsFeature(v) == v.t = "object" /\ v.CLASS_NAME = "SuperMap.Feature.Vector"

\* C9: round trip.  When a feature holding a geometry g of a supported kind
\* (a collection inside a collection included) is written by a codec without
\* coordinate systems and the text is read back, the result is a feature
\* whose geometry equals g in kind, coordinates and component order.
C9_RoundTrip ==
    (/\ ReadBack
     /\ ~Configured(codec)
     /\ toWrite.t = "object"
     /\ Supported(toWrite.geometry))
    => (/\ IsFeature(decoded)
        /\ decoded.geometry = toWrite.geometry)

Line_01 == Geometry("LineString", <<Point(0, 0), Point(1, 1)>>)
Line_23 == Geometry("LineString", <<Point(2, 2), Point(3, 3)>>)
Ring_0 == Geometry("LinearRing", <<Point(0, 0), Point(1, 0), Point(1, 1), Point(0, 0)>>)
Ring_2 == Geometry("LinearRing", <<Point(2, 2), Point(3, 2), Point(3, 3), Point(2, 2)>>)

\* what the two texts of the structural-split examples stand for
Expected_multilinestring == Geometry("MultiLineString", <<Line_01, Line_23>>)
Expected_multipolygon ==
    Geometry("MultiPolygon", <<Geometry("Polygon", <<Ring_0>>), Geometry("Polygon", <<Ring_2>>)>>)

\* C10: structural split.  Reading MULTILINESTRING((0 0,1 1),(2 2,3 3)) gives
\* a feature of two LineStrings of two points each, reading
\* MULTIPOLYGON(((0 0,1 0,1 1,0 0)),((2 2,3 2,3 3,2 2))) gives a feature of
\* two single-ring Polygons, and reading the text written for a
\* MultiLineString or MultiPolygon of k groups gives exactly k components,
\* each with its own points in order.
C10_StructuralSplit ==
    (lastOp = "read" /\ ~Configured(codec)) =>
       /\ wktText.chars = T_multilinestring =>
             IsFeature(decoded) /\ decoded.geometry = Expected_multilinestring
       /\ wktText.chars = T_multipolygon =>
             IsFeature(decoded) /\ decoded.geometry = Expected_multipolygon
       /\ (/\ ReadBack /\ toWrite.t = "object"
           /\ toWrite.geometry.CLASS_NAME \in {"MultiLineString", "MultiPolygon"}) =>
             /\ IsFeature(decoded)
             /\ decoded.geometry.CLASS_NAME = toWrite.geometry.CLASS_NAME
             /\ Len(decoded.geometry.components) = Len(toWrite.geometry.components)
             /\ \A i \in 1..Len(toWrite.geometry.components) :
                   decoded.geometry.components[i] = toWrite.geometry.components[i]

\* the text fails the outer TYPE(BODY) pattern, or its type keyword is none
\* of the seven supported ones
Undecodable(wkt) ==
    LET keyword(matches) == ~matches.matched \/ ToLowerCase(matches.type) \notin ParseKinds
    IN  keyword(Exec_typeStr(NormalizeBreaks(wkt)))

\* C11: read never crashes on text it cannot decode.  For text that fails
\* the outer pattern or names an unsupported type, read returns an absent
\* result: it raises nothing and returns no object, whatever coordinate
\* systems the codec is configured with.
C11_UndecodableGivesNothing ==
    (lastOp = "read" /\ Undecodable(wktText.chars)) => decoded \in {Undefined, Null}

\* the feature holds a geometry whose kind has no entry in the extract table
Unrecognized(feature) == feature.geometry.CLASS_NAME \notin ExtractKinds

\* the features of q whose geometry the extract table knows
Recognized(q) == LET known(feature) == ~Unrecognized(feature) IN SelectSeq(q, known)

\* C12: encoding a geometry of an unrecognized kind fails with an absent
\* result.  write of a feature holding such a geometry returns no WKT text
\* (the empty text is taken as absent here), and write of a sequence with
\* such a member never returns the text of the well-formed
\* GEOMETRYCOLLECTION of the remaining members.
C12_UnrecognizedKindFails ==
    (lastOp = "write") =>
       /\ (toWrite.t = "object" /\ Unrecognized(toWrite)) => wktText.chars = <<>>
       /\ (toWrite.t = "array" /\ \E i \in 1..Len(toWrite.v) : Unrecognized(toWrite.v[i])) =>
             wktText.chars # WKT_write(Arr(Recognized(toWrite.v)), codec)

\* the feature with its geometry transformed once from the internal to the
\* external coordinate system of the codec
TransformedOnce(feature, format) ==
    Vector(Transform(feature.geometry, format.internalProjection,
                     format.externalProjection))

\* the argument of write with every top-level geometry transformed once
AllTransformedOnce(features, format) ==
    IF features.t = "array"
    THEN Arr([i \in 1..Len(features.v) |-> TransformedOnce(features.v[i], format)])
    ELSE TransformedOnce(features, format)

\* C13: with both coordinate systems configured, write transforms every
\* geometry exactly once.  The text written is the text of the input whose
\* top-level geometries were each transformed a single time, so every emitted
\* coordinate (those of the members of a Collection too) is the single
\* transform of the input coordinate.
C13_TransformOnce ==
    (lastOp = "write" /\ Configured(codec)) =>
       wktText.chars = WKT_write(AllTransformedOnce(toWrite, codec), NoFormat)

----------------------------------------------------------------------------
(* Claim about part counts of 0, checked under SpecRoute *)

\* some entry of parts is 0
HasEmptyPart == \E i \in 1..Len(InParts) : InParts[i] = 0

\* C14: every part count must be at least 1.  When the JSON object's parts
\* holds an entry 0, fromJson raises and returns no Route, whatever the other
\* parts and the points are.
C14_EmptyPartRaises ==
    (Called /\ IsObject /\ jsonObject.v.parts.t = "array" /\ HasEmptyPart) =>
       result.kind = "throw"

\* the other part is valid and points has exactly sum(parts) entries
C14_Witness ==
    /\ Called /\ IsObject /\ jsonObject.v.parts.t = "array"
    /\ InParts = <<1, 0>>
    /\ jsonObject.v.points.t = "array" /\ Len(InPoints) = 1
    /\ result.kind = "throw" /\ ~result.oob
====
